---- MODULE Spec2Model ----
(***************************************************************************)
(* Model of the availability slot generator getSlots /                     *)
(* buildSlotsWithDateRanges.                                               *)
(*                                                                         *)
(* Instants are whole seconds since the epoch of the model (day 0, 00:00   *)
(* UTC).  A Dayjs value is modelled by its instant; the zone a Dayjs is    *)
(* displayed in matters only to minute() and format(), which take the UTC  *)
(* offset (in minutes) of that zone as an argument.                        *)
(***************************************************************************)
EXTENDS Integers, Sequences, FiniteSets, Bags, TLC

(***************************************************************************)
(* Bounds of the explored input space.                                     *)
(***************************************************************************)
MaxRanges == 2

(***************************************************************************)
(* Time arithmetic (dayjs).                                                *)
(***************************************************************************)
Day0 == 24 * 3600

\* the instant of hh:mm:ss UTC on the model's reference day
At(h, m, s) == Day0 + h * 3600 + m * 60 + s

\* dayjs#minute() of an instant displayed at UTC offset off (minutes)
MinuteAt(t, off) == ((t + off * 60) \div 60) % 60

\* dayjs.utc()#minute()
Minute(t) == MinuteAt(t, 0)

\* dayjs#startOf("hour") on a UTC value
StartOfHour(t) == t - (t % 3600)

\* dayjs#minute(m) on a UTC value: replaces the minute, keeps hour and seconds
SetMinute(t, m) == t - Minute(t) * 60 + m * 60

\* dayjs#add(n, "minute")
AddMinutes(t, n) == t + n * 60

\* Math.ceil(a / b) for a >= 0, b > 0
Ceil(a, b) == (a + b - 1) \div b

\* dayjs#format("YYYY-MM-DD") at UTC offset off: the calendar day, as a day number
FormatYYYYMMDD(t, off) == (t + off * 60) \div 86400

\* dayjs#toISOString(): the UTC calendar fields of the instant
ToISOString(t) == <<t \div 86400, (t % 86400) \div 3600, (t % 3600) \div 60, t % 60>>

\* dayjs.utc(isoString): the instant denoted by the UTC calendar fields
ParseISO(k) == k[1] * 86400 + k[2] * 3600 + k[3] * 60 + k[4]

\* dayjs().tz(timeZone).utcOffset(), for zones without daylight saving
UtcOffset(timeZone) ==
    CASE timeZone = "UTC" -> 0
      [] timeZone = "Asia/Kolkata" -> 330
      [] timeZone = "Asia/Colombo" -> 330
      [] timeZone = "Asia/Kathmandu" -> 345
      [] OTHER -> 0

\* getTimeZone(inviteeDate): the zone the invitee's date is displayed in
getTimeZone(inviteeDate) == inviteeDate.timeZone

(***************************************************************************)
(* JavaScript values of the out-of-office entries.                         *)
(***************************************************************************)
Null == [type |-> "null"]
Str(s) == [type |-> "string", v |-> s]
Obj(n) == [type |-> "object", id |-> n]

\* JavaScript truthiness, as used by `x && {...}`
Truthy(x) == \/ x.type = "object"
             \/ x.type = "string" /\ x.v # ""

(***************************************************************************)
(* Pure helpers of buildSlotsWithDateRanges.                               *)
(***************************************************************************)
\* mutant of minimumOfOne: the safeguard is dropped
minimumOfOneOff(input) == input

minimumOfOne(input) == IF input < 1 THEN 1 ELSE input

\* mutant of ClampOffsetStart: the offset is used as passed
ClampOffsetStartRaw(o) == o

\* offsetStart = offsetStart ? minimumOfOne(offsetStart) : 0
ClampOffsetStart(o) == IF o # 0 THEN minimumOfOne(o) ELSE 0

intervalsWithDefinedStartTimes == <<60, 30, 20, 15, 10, 5>>

\* Number(process.env.NEXT_PUBLIC_AVAILABILITY_SCHEDULE_INTERVAL) || 1
\* (scheduleInterval = 0 stands for an unset or non-numeric variable)
FallbackInterval(scheduleInterval) == IF scheduleInterval = 0 THEN 1 ELSE scheduleInterval

RECURSIVE SelectFrom(_, _, _)
SelectFrom(i, freq, fallback) ==
    IF i > Len(intervalsWithDefinedStartTimes) THEN fallback
    ELSE IF freq % intervalsWithDefinedStartTimes[i] = 0
         THEN intervalsWithDefinedStartTimes[i]
         ELSE SelectFrom(i + 1, freq, fallback)

\* mutant of SelectInterval: the candidates are scanned from the smallest
SelectIntervalAscending(freq, fallback) ==
    IF \E i \in 1..6 : freq % intervalsWithDefinedStartTimes[i] = 0
    THEN CHOOSE g \in {5, 10, 15, 20, 30, 60} :
            /\ freq % g = 0
            /\ \A h \in {5, 10, 15, 20, 30, 60} : freq % h = 0 => g <= h
    ELSE fallback

\* the loop over intervalsWithDefinedStartTimes
SelectInterval(freq, fallback) == SelectFrom(1, freq, fallback)

isHalfHourTimezone(timeZone) == UtcOffset(timeZone) % 60 # 0

\* mutant of isISTTimezone: the zone is recognised by its name alone
isISTTimezoneByName(timeZone) == timeZone = "Asia/Kolkata"

isISTTimezone(timeZone) == timeZone = "Asia/Kolkata" \/ UtcOffset(timeZone) = 330

hasHalfHourStartTimes(ranges) ==
    \E i \in 1..Len(ranges) : MinuteAt(ranges[i].start, ranges[i].utcOffset) = 30

ShouldApplyHalfHourOffset(timeZone, ranges, intv) ==
    (isISTTimezone(timeZone) \/ (isHalfHourTimezone(timeZone) /\ hasHalfHourStartTimes(ranges)))
    /\ intv = 60

\* mutant of InsertByStart: a sort that swaps ranges of equal start
RECURSIVE InsertByStartUnstable(_, _)
InsertByStartUnstable(sorted, r) ==
    IF sorted = <<>> THEN <<r>>
    ELSE IF sorted[Len(sorted)].start < r.start
         THEN Append(sorted, r)
         ELSE Append(InsertByStartUnstable(SubSeq(sorted, 1, Len(sorted) - 1), r),
                     sorted[Len(sorted)])

\* Array.prototype.sort((a, b) => a.start - b.start): stable, in place
RECURSIVE InsertByStart(_, _)
InsertByStart(sorted, r) ==
    IF sorted = <<>> THEN <<r>>
    ELSE IF sorted[Len(sorted)].start <= r.start
         THEN Append(sorted, r)
         ELSE Append(InsertByStart(SubSeq(sorted, 1, Len(sorted) - 1), r), sorted[Len(sorted)])

\* mutant of SortByStart: the ranges are processed as passed
SortByStartOff(ranges) == ranges

RECURSIVE SortByStart(_)
SortByStart(ranges) ==
    IF ranges = <<>> THEN <<>>
    ELSE InsertByStart(SortByStart(SubSeq(ranges, 1, Len(ranges) - 1)), ranges[Len(ranges)])

\* mutant of HalfHourCorrection: the correction is never applied
HalfHourCorrectionOff(apply, t) == t

\* the half-hour correction: if (currentMinute !== 30) t = t.minute(30)
HalfHourCorrection(apply, t) ==
    IF apply /\ Minute(t) # 30 THEN SetMinute(t, 30) ELSE t

\* mutant of EarliestStart: the notice floor is dropped
EarliestStartNoNotice(range, notice) == range.start

\* mutant of EarliestStart: the start of the range is dropped
EarliestStartNoRange(range, notice) == notice

\* max(range.start, now + notice)
EarliestStart(range, notice) == IF range.start > notice THEN range.start ELSE notice

\* round up to the next multiple of the interval within the hour
RoundUpToInterval(t, intv) ==
    IF Minute(t) % intv # 0
    THEN AddMinutes(StartOfHour(t), Ceil(Minute(t), intv) * intv)
    ELSE t

\* slotStartTimeUTC of a range before the overlap-avoidance pass
CandidateStart(range, notice, intv, offs, apply) ==
    HalfHourCorrection(apply,
        AddMinutes(RoundUpToInterval(EarliestStart(range, notice), intv), offs))

\* mutant of ScanOne: the candidate is always floored to the existing slot
ScanOneAlwaysSnap(key, st, range, step) ==
    LET utcResultValue == ParseISO(key) IN
    IF utcResultValue < st /\ AddMinutes(utcResultValue, step) > st
    THEN utcResultValue
    ELSE st

\* one iteration of the overlap-avoidance pass over an existing key
ScanOne(key, st, range, step) ==
    LET utcResultValue == ParseISO(key) IN
    IF utcResultValue < st /\ AddMinutes(utcResultValue, step) > st
    THEN IF ~(utcResultValue < range.start)
         THEN utcResultValue
         ELSE AddMinutes(utcResultValue, step)
    ELSE st

\* mutant of CanEmit: the length of the event is not counted
CanEmitIgnoringLength(cur, len, range) == ~(cur > range.end)

\* the emission loop's condition
CanEmit(cur, len, range) == ~(AddMinutes(cur, len) - 1 > range.end)

\* the slot data of one emitted slot
OooFields(entry) ==
    {f \in {"fromUser", "toUser", "reason", "emoji"} : f \in DOMAIN entry /\ Truthy(entry[f])}

SlotData(time, ooo, date) ==
    IF date \in DOMAIN ooo
    THEN [f \in {"time", "away"} \cup OooFields(ooo[date]) |->
            IF f = "time" THEN time
            ELSE IF f = "away" THEN TRUE
            ELSE ooo[date][f]]
    ELSE [f \in {"time"} |-> time]

\* mutant of MapSet: a list that appends whatever the key
MapSetAppend(m, key, data) == Append(m, [key |-> key, data |-> data])

\* Map#set: replaces the value of an existing key in place, else appends
MapSet(m, key, data) ==
    IF \E i \in 1..Len(m) : m[i].key = key
    THEN [i \in 1..Len(m) |-> IF m[i].key = key THEN [key |-> key, data |-> data] ELSE m[i]]
    ELSE Append(m, [key |-> key, data |-> data])

\* the instant following cur in the emission loop
NextSlot(cur, step, apply) == HalfHourCorrection(apply, AddMinutes(cur, step))

(***************************************************************************)
(* The call as a function of its inputs: the composition of the steps.     *)
(***************************************************************************)
\* the overlap-avoidance loop from key i on
RECURSIVE ScanAll(_, _, _, _, _)
ScanAll(m, i, st, range, stp) ==
    IF i > Len(m) THEN st
    ELSE ScanAll(m, i + 1, ScanOne(m[i].key, st, range, stp), range, stp)

\* the emission loop from cur on
RECURSIVE EmitAll(_, _, _, _, _, _, _, _)
EmitAll(m, cur, range, len, stp, apply, ooo, date) ==
    IF ~CanEmit(cur, len, range) THEN m
    ELSE EmitAll(MapSet(m, ToISOString(cur), SlotData(cur, ooo, date)),
                 NextSlot(cur, stp, apply), range, len, stp, apply, ooo, date)

\* the forEach over the ordered ranges from index i on
RECURSIVE ForEachRange(_, _, _, _, _, _, _, _, _, _)
ForEachRange(ranges, i, m, freq, len, offs, intv, notice, apply, ooo) ==
    IF i > Len(ranges) THEN m
    ELSE LET range == ranges[i]
             st == ScanAll(m, 1, CandidateStart(range, notice, intv, offs, apply),
                           range, freq + offs)
             date == FormatYYYYMMDD(range.start, range.utcOffset) IN
         ForEachRange(ranges, i + 1,
                      EmitAll(m, st, range, len, freq + offs, apply, ooo, date),
                      freq, len, offs, intv, notice, apply, ooo)

buildSlotsWithDateRanges(ranges, freqArg, lenArg, timeZone, now, notice, offsArg, ooo, sched) ==
    LET freq == minimumOfOne(freqArg)
        len == minimumOfOne(lenArg)
        offs == ClampOffsetStart(offsArg)
        intv == SelectInterval(freq, FallbackInterval(sched))
        apply == ShouldApplyHalfHourOffset(timeZone, ranges, intv)
        m == ForEachRange(SortByStart(ranges), 1, <<>>, freq, len, offs, intv,
                          AddMinutes(now, notice), apply, ooo) IN
    [i \in 1..Len(m) |-> m[i].data]

\* offsetStart = 0 is the default of getSlots' destructuring
OffsetArg(a) == IF a.offsetStart = <<>> THEN 0 ELSE a.offsetStart[1]

\* the list a call c of getSlots returns
getSlots(c) ==
    buildSlotsWithDateRanges(c.args.dateRanges, c.args.frequency, c.args.eventLength,
                             getTimeZone(c.args.inviteeDate), c.now,
                             c.args.minimumBookingNotice, OffsetArg(c.args),
                             c.args.datesOutOfOffice, c.scheduleInterval)

(***************************************************************************)
(* The explored inputs.                                                    *)
(***************************************************************************)
Range(s, e, off) == [start |-> s, end |-> e, utcOffset |-> off]

RangePool ==
    { Range(At(9, 0, 0), At(11, 0, 0), 0),
      Range(At(9, 30, 0), At(12, 0, 0), 0),
      Range(At(10, 15, 0), At(11, 59, 59), 330),
      Range(At(10, 30, 0), At(10, 0, 0), 0),
      Range(At(23, 0, 0), At(25, 0, 0), 0) }

RECURSIVE SeqsUpTo(_, _)
SeqsUpTo(S, n) ==
    IF n = 0 THEN {<<>>}
    ELSE LET shorter == SeqsUpTo(S, n - 1) IN
         shorter \cup {Append(q, x) : q \in shorter, x \in S}

NoOoo == <<>>
OooPto == (1 :> [reason |-> Str("PTO"), emoji |-> Str("palm"), fromUser |-> Null])

Clocks ==
    { [now |-> At(8, 0, 0), minimumBookingNotice |-> 0],
      [now |-> At(9, 0, 30), minimumBookingNotice |-> 30] }

Args(tz, freq, len, offs, notice, ranges, ooo) ==
    [inviteeDate |-> [timeZone |-> tz], frequency |-> freq, eventLength |-> len,
     offsetStart |-> offs, minimumBookingNotice |-> notice, dateRanges |-> ranges,
     datesOutOfOffice |-> ooo]

Call(a, clock, sched) == [args |-> a, now |-> clock, scheduleInterval |-> sched]

GridCalls ==
    { Call(Args(tz, freq, len, offs, c.minimumBookingNotice, ranges, ooo), c.now, 0) :
        tz \in {"UTC", "Asia/Kolkata", "Asia/Kathmandu"},
        freq \in {45, 60},
        len \in {30, 60},
        offs \in {<<>>, <<15>>},
        c \in Clocks,
        ranges \in SeqsUpTo(RangePool, MaxRanges),
        ooo \in {NoOoo, OooPto} }

\* the working day 09:00-17:00 UTC with half-hour events
WorkingDayCalls ==
    { Call(Args("UTC", 30, 30, <<>>, 0, <<Range(At(9, 0, 0), At(17, 0, 0), 0)>>, NoOoo),
           now, 0) : now \in {At(8, 0, 0), At(9, 0, 0)} }

\* zero, negative and small parameters on a four-minute range
ClampCalls ==
    { Call(Args("UTC", freq, len, offs, 0, <<Range(At(9, 0, 0), At(9, 4, 0), 0)>>, NoOoo),
           At(8, 0, 0), 0) :
        freq \in {0 - 5, 0, 2}, len \in {0 - 2, 0, 1}, offs \in {<<>>, <<0>>, <<0 - 3>>, <<2>>} }

\* frequencies with each outcome of the granularity selection
GranularityCalls ==
    { Call(Args("UTC", freq, 30, <<>>, 0, <<Range(At(9, 0, 0), At(11, 0, 0), 0)>>, NoOoo),
           At(8, 0, 0), sched) :
        freq \in {5, 10, 20, 37, 45, 90, 120}, sched \in {0, 7} }

\* a zone at UTC+5:30 that is not Asia/Kolkata
ColomboCalls ==
    { Call(Args("Asia/Colombo", freq, 30, <<>>, 0, ranges, NoOoo), At(8, 0, 0), 0) :
        freq \in {45, 60},
        ranges \in { <<Range(At(9, 0, 0), At(11, 0, 0), 0)>>,
                     <<Range(At(9, 30, 0), At(12, 0, 0), 0)>> } }

\* a later range that starts between two hourly slots of an earlier one
AdvanceCalls ==
    { Call(Args(tz, 60, 30, offs, 0,
                <<Range(At(9, 0, 0), At(11, 0, 0), 0), Range(At(10, 45, 0), At(13, 0, 0), 0)>>,
                NoOoo), At(8, 0, 0), 0) :
        tz \in {"UTC", "Asia/Kolkata"}, offs \in {<<>>, <<15>>} }

\* two ranges of equal start that are displayed in different zones
TieCalls ==
    { Call(Args("UTC", 60, 60, <<>>, 0, ranges, OooPto), At(8, 0, 0), 0) :
        ranges \in { <<Range(At(23, 0, 0), At(25, 0, 0), 0), Range(At(23, 0, 0), At(25, 0, 0), 330)>>,
                     <<Range(At(23, 0, 0), At(25, 0, 0), 330), Range(At(23, 0, 0), At(25, 0, 0), 0)>> } }

\* a range inside another one, passed before it or after it
NestedCalls ==
    { Call(Args("UTC", 60, 60, <<>>, 0, ranges, NoOoo), At(8, 0, 0), 0) :
        ranges \in { <<Range(At(10, 0, 0), At(11, 0, 0), 0), Range(At(9, 0, 0), At(12, 0, 0), 0)>>,
                     <<Range(At(9, 0, 0), At(12, 0, 0), 0), Range(At(10, 0, 0), At(11, 0, 0), 0)>> } }

Calls ==
    GridCalls \cup WorkingDayCalls \cup ClampCalls \cup GranularityCalls
        \cup ColomboCalls \cup AdvanceCalls \cup TieCalls \cup NestedCalls

(***************************************************************************)
(* The state of one call of getSlots.                                      *)
(***************************************************************************)
VARIABLES
    call,                       \* the arguments, the clock and the environment of the call
    dateRanges,                 \* the caller's array of date ranges
    pc,                         \* position in buildSlotsWithDateRanges
    frequency, eventLength, offsetStart,   \* the parameters after the safeguards
    interval,
    startTimeWithMinNotice,
    shouldApplyHalfHourOffset,
    slots,                      \* the Map, as its entries in insertion order
    rangeIdx,                   \* index of the range forEach is at
    dateYYYYMMDD,
    slotStartTimeUTC, slotStartTime,
    iter,                       \* position of the keys() iterator
    currentSlotUTC,
    result,                     \* the returned array
    earlier,                    \* the arrays returned by earlier calls with these arguments
    emitLog                     \* history: every slots.set, with the range it came from

\* the state of the calendar-cache cron handler
VARIABLES
    job,                        \* the request, the environment and what the repository holds
    hpc,                        \* position of the handler
    ops,                        \* the two handleCalendarOperation calls and their per-calendar tasks
    fetches,                    \* calls of getNextBatchToWatch / getNextBatchToUnwatch
    inits,                      \* calls of CalendarCache.initFromCredentialId
    operations,                 \* calls of watchCalendar / unwatchCalendar
    updates,                    \* calls of SelectedCalendarRepository.updateById
    rejected,                   \* the external calls that rejected so far
    response                    \* what the handler answered

slotVars == <<call, dateRanges, pc, frequency, eventLength, offsetStart, interval,
              startTimeWithMinNotice, shouldApplyHalfHourOffset, slots, rangeIdx,
              dateYYYYMMDD, slotStartTimeUTC, slotStartTime, iter, currentSlotUTC,
              result, earlier, emitLog>>

cronVars == <<job, hpc, ops, fetches, inits, operations, updates, rejected, response>>

\* the state of one createMeeting call of the Teams video adapter
VARIABLES
    tpc,                        \* position of createMeeting
    retryCount,
    attemptLog,                 \* how each attemptCreateMeeting call ended, in order
    invalidations,              \* calls of oAuthManagerHelper.invalidateCredential
    meeting                     \* what createMeeting returned or threw

teamsVars == <<tpc, retryCount, attemptLog, invalidations, meeting>>

vars == <<slotVars, cronVars, teamsVars>>

\* no createMeeting call is in progress
TeamsIdle ==
    /\ tpc = "idle"
    /\ retryCount = 0
    /\ attemptLog = <<>>
    /\ invalidations = 0
    /\ meeting = <<>>

\* no cron request is being handled
CronIdle ==
    /\ job = <<>>
    /\ hpc = "idle"
    /\ ops = <<>>
    /\ fetches = <<>>
    /\ inits = EmptyBag
    /\ operations = EmptyBag
    /\ updates = EmptyBag
    /\ rejected = {}
    /\ response = <<>>

step == frequency + offsetStart

Init ==
    /\ call \in Calls
    /\ dateRanges = call.args.dateRanges
    /\ pc = "call"
    /\ frequency = 0 /\ eventLength = 0 /\ offsetStart = 0
    /\ interval = 0
    /\ startTimeWithMinNotice = 0
    /\ shouldApplyHalfHourOffset = FALSE
    /\ slots = <<>>
    /\ rangeIdx = 0
    /\ dateYYYYMMDD = 0
    /\ slotStartTimeUTC = 0 /\ slotStartTime = 0
    /\ iter = 0
    /\ currentSlotUTC = 0
    /\ result = <<>>
    /\ earlier = <<>>
    /\ emitLog = <<>>
    /\ CronIdle
    /\ TeamsIdle

\* getSlots calls buildSlotsWithDateRanges, which runs up to the forEach
Enter ==
    /\ pc = "call"
    /\ LET a == call.args
           tz == getTimeZone(a.inviteeDate)
           freq == minimumOfOne(a.frequency)
           intv == SelectInterval(freq, FallbackInterval(call.scheduleInterval)) IN
       /\ frequency' = freq
       /\ eventLength' = minimumOfOne(a.eventLength)
       /\ offsetStart' = ClampOffsetStart(OffsetArg(a))
       /\ interval' = intv
       /\ startTimeWithMinNotice' = AddMinutes(call.now, a.minimumBookingNotice)
       /\ shouldApplyHalfHourOffset' = ShouldApplyHalfHourOffset(tz, dateRanges, intv)
       /\ dateRanges' = SortByStart(dateRanges)
    /\ rangeIdx' = 1
    /\ pc' = "forEach"
    /\ UNCHANGED <<cronVars, teamsVars, call, earlier, slots, dateYYYYMMDD, slotStartTimeUTC, slotStartTime, iter,
                   currentSlotUTC, result, emitLog>>

\* the head of the forEach callback, up to the creation of the keys() iterator
BeginRange ==
    /\ pc = "forEach"
    /\ rangeIdx <= Len(dateRanges)
    /\ LET range == dateRanges[rangeIdx]
           st == CandidateStart(range, startTimeWithMinNotice, interval, offsetStart,
                                shouldApplyHalfHourOffset) IN
       /\ dateYYYYMMDD' = FormatYYYYMMDD(range.start, range.utcOffset)
       /\ slotStartTimeUTC' = st
       /\ slotStartTime' = st
    /\ iter' = 1
    /\ pc' = "scan"
    /\ UNCHANGED <<cronVars, teamsVars, call, earlier, dateRanges, frequency, eventLength, offsetStart, interval,
                   startTimeWithMinNotice, shouldApplyHalfHourOffset, slots, rangeIdx,
                   currentSlotUTC, result, emitLog>>

\* one iteration of the overlap-avoidance loop
ScanStep ==
    /\ pc = "scan"
    /\ iter <= Len(slots)
    /\ LET st == ScanOne(slots[iter].key, slotStartTime, dateRanges[rangeIdx], step) IN
       /\ slotStartTimeUTC' = IF st = slotStartTime THEN slotStartTimeUTC ELSE st
       /\ slotStartTime' = st
    /\ iter' = iter + 1
    /\ UNCHANGED <<cronVars, teamsVars, call, earlier, dateRanges, pc, frequency, eventLength, offsetStart, interval,
                   startTimeWithMinNotice, shouldApplyHalfHourOffset, slots, rangeIdx,
                   dateYYYYMMDD, currentSlotUTC, result, emitLog>>

\* the iterator is exhausted: currentSlotUTC = slotStartTime.utc()
ScanDone ==
    /\ pc = "scan"
    /\ iter > Len(slots)
    /\ currentSlotUTC' = slotStartTime
    /\ pc' = "emit"
    /\ UNCHANGED <<cronVars, teamsVars, call, earlier, dateRanges, frequency, eventLength, offsetStart, interval,
                   startTimeWithMinNotice, shouldApplyHalfHourOffset, slots, rangeIdx,
                   dateYYYYMMDD, slotStartTimeUTC, slotStartTime, iter, result, emitLog>>

\* one iteration of the emission loop
EmitSlot ==
    /\ pc = "emit"
    /\ CanEmit(currentSlotUTC, eventLength, dateRanges[rangeIdx])
    /\ LET slotData == SlotData(currentSlotUTC, call.args.datesOutOfOffice, dateYYYYMMDD) IN
       /\ slots' = MapSet(slots, ToISOString(slotData.time), slotData)
       /\ emitLog' = Append(emitLog, [range |-> rangeIdx, data |-> slotData])
    /\ slotStartTime' = currentSlotUTC
    /\ currentSlotUTC' = NextSlot(currentSlotUTC, step, shouldApplyHalfHourOffset)
    /\ UNCHANGED <<cronVars, teamsVars, call, earlier, dateRanges, pc, frequency, eventLength, offsetStart, interval,
                   startTimeWithMinNotice, shouldApplyHalfHourOffset, rangeIdx,
                   dateYYYYMMDD, slotStartTimeUTC, iter, result>>

\* the emission loop's condition fails: the callback returns
EndRange ==
    /\ pc = "emit"
    /\ ~CanEmit(currentSlotUTC, eventLength, dateRanges[rangeIdx])
    /\ rangeIdx' = rangeIdx + 1
    /\ pc' = "forEach"
    /\ UNCHANGED <<cronVars, teamsVars, call, earlier, dateRanges, frequency, eventLength, offsetStart, interval,
                   startTimeWithMinNotice, shouldApplyHalfHourOffset, slots,
                   dateYYYYMMDD, slotStartTimeUTC, slotStartTime, iter, currentSlotUTC,
                   result, earlier, emitLog>>

\* return Array.from(slots.values())
Return ==
    /\ pc = "forEach"
    /\ rangeIdx > Len(dateRanges)
    /\ result' = [i \in 1..Len(slots) |-> slots[i].data]
    /\ pc' = "returned"
    /\ UNCHANGED <<cronVars, teamsVars, call, earlier, dateRanges, frequency, eventLength, offsetStart, interval,
                   startTimeWithMinNotice, shouldApplyHalfHourOffset, slots, rangeIdx,
                   dateYYYYMMDD, slotStartTimeUTC, slotStartTime, iter, currentSlotUTC,
                   emitLog>>

\* the caller calls getSlots once more with the same arguments and clock,
\* passing either the array of the first call or a new array of the same ranges
CallAgain ==
    /\ pc = "returned"
    /\ earlier = <<>>
    /\ earlier' = <<result>>
    /\ dateRanges' \in {dateRanges, call.args.dateRanges}
    /\ pc' = "call"
    /\ frequency' = 0 /\ eventLength' = 0 /\ offsetStart' = 0
    /\ interval' = 0
    /\ startTimeWithMinNotice' = 0
    /\ shouldApplyHalfHourOffset' = FALSE
    /\ slots' = <<>>
    /\ rangeIdx' = 0
    /\ dateYYYYMMDD' = 0
    /\ slotStartTimeUTC' = 0 /\ slotStartTime' = 0
    /\ iter' = 0
    /\ currentSlotUTC' = 0
    /\ result' = <<>>
    /\ emitLog' = <<>>
    /\ UNCHANGED <<cronVars, teamsVars, call>>

Next ==
    Enter \/ BeginRange \/ ScanStep \/ ScanDone \/ EmitSlot \/ EndRange \/ Return \/ CallAgain

Spec == Init /\ [][Next]_vars

(***************************************************************************)
(* Properties.                                                             *)
(***************************************************************************)
InputRanges == call.args.dateRanges

Times(seq) == {seq[i].time : i \in 1..Len(seq)}

\* the instants held by the Map
SlotTimes == {slots[i].data.time : i \in 1..Len(slots)}

Returned == pc = "returned"

ContainedIn(t, r) == t >= r.start /\ AddMinutes(t, eventLength) - 1 <= r.end

\* C1 (containment): every slot placed in the Map, and so every slot returned,
\* starts at or after the start of some input range and ends, less one second,
\* at or before the end of that same range.
C1_Containment ==
    /\ \A t \in SlotTimes : \E j \in 1..Len(InputRanges) : ContainedIn(t, InputRanges[j])
    /\ \A t \in Times(result) : \E j \in 1..Len(InputRanges) : ContainedIn(t, InputRanges[j])

\* C1 witness: a call with two overlapping ranges, a start offset and the
\* half-hour correction active has returned slots.
C1_Witness ==
    /\ Returned /\ Len(result) >= 2
    /\ shouldApplyHalfHourOffset /\ offsetStart > 0
    /\ \E i, j \in 1..Len(InputRanges) :
          i # j /\ InputRanges[i].start < InputRanges[j].start
                /\ InputRanges[j].start < InputRanges[i].end

\* C2 (notice floor): no slot placed in the Map or returned starts before
\* now + minimumBookingNotice.
C2_NoticeFloor ==
    \A t \in SlotTimes \cup Times(result) :
        t >= AddMinutes(call.now, call.args.minimumBookingNotice)

\* C2 witness: with the half-hour correction active, slots were returned that
\* were emitted from a range starting before the notice floor.
C2_Witness ==
    /\ Returned /\ result # <<>>
    /\ shouldApplyHalfHourOffset
    /\ \E j \in 1..Len(InputRanges) :
          /\ InputRanges[j].start < AddMinutes(call.now, call.args.minimumBookingNotice)
          /\ \E k \in 1..Len(emitLog) : dateRanges[emitLog[k].range] = InputRanges[j]

\* C3 (spacing within a range): two successive slots emitted by the emission
\* loop of one range are at least frequency + offsetStart minutes apart.
C3_SpacingWithinRange ==
    \A k \in 1..(Len(emitLog) - 1) :
        emitLog[k].range = emitLog[k + 1].range
            => emitLog[k + 1].data.time - emitLog[k].data.time >= step * 60

\* C4 (spacing across ranges): two returned slots with different instants are
\* at least frequency + offsetStart minutes apart.
C4_SpacingAcrossRanges ==
    \A t, u \in Times(result) : t < u => u - t >= step * 60

\* C5 (de-duplication): the returned list holds no instant twice.
C5_NoDuplicateInstant ==
    \A i, j \in 1..Len(result) : i # j => result[i].time # result[j].time

\* C5 witness: a call has returned after two different ranges each emitted a
\* slot at the same instant.
C5_Witness ==
    /\ Returned
    /\ \E k, l \in 1..Len(emitLog) :
          /\ emitLog[k].range # emitLog[l].range
          /\ emitLog[k].data.time = emitLog[l].data.time

NoticeFloor == AddMinutes(call.now, call.args.minimumBookingNotice)

\* t rounded up to the next multiple of g minutes within its hour
RoundedUpWithinHour(t, g) == StartOfHour(t) + Ceil(t - StartOfHour(t), g * 60) * g * 60

\* the instants s0 + k * frequency that fit in range r
ExpectedSlots(r) ==
    LET floor == IF r.start > NoticeFloor THEN r.start ELSE NoticeFloor
        s0 == RoundedUpWithinHour(floor, interval)
        fits(t) == AddMinutes(t, eventLength) - 1 <= r.end IN
    IF r.end < s0 THEN {}
    ELSE {t \in {s0 + k * frequency * 60 : k \in 0..((r.end - s0) \div (frequency * 60))} :
            fits(t)}

\* C6 (exact slot set for one range): with one input range, no start offset and
\* the half-hour correction inactive, the returned instants are exactly
\* s0 + k * frequency for the k that fit, s0 being max(range.start, notice floor)
\* rounded up to the granularity; the working day 09:00-17:00 with frequency and
\* length 30 gives the 16 slots 09:00 .. 16:30.
C6_ExactSlotSet ==
    /\ (Returned /\ Len(InputRanges) = 1 /\ offsetStart = 0 /\ ~shouldApplyHalfHourOffset)
          => Times(result) = ExpectedSlots(InputRanges[1])
    /\ (Returned /\ call \in WorkingDayCalls)
          => /\ Len(result) = 16
             /\ Times(result) = {At(9, 0, 0) + k * 1800 : k \in 0..15}

TargetOffset == UtcOffset(getTimeZone(call.args.inviteeDate))

\* the calendar date of an instant in the target timezone
LocalDate(t) == FormatYYYYMMDD(t, TargetOffset)

Ooo == call.args.datesOutOfOffice

\* the fields of an out-of-office entry that are defined
DefinedFields(entry) ==
    {f \in {"fromUser", "toUser", "reason", "emoji"} : f \in DOMAIN entry /\ entry[f] # Null}

\* C7 (out-of-office tagging): a slot emitted from a range that lies entirely on
\* a date of the out-of-office map has away = TRUE and exactly the defined
\* fields of the entry; a slot on a date that is not in the map has only its time.
C7_OutOfOfficeTagging ==
    \A k \in 1..Len(emitLog) :
        LET r == dateRanges[emitLog[k].range]
            d == emitLog[k].data
            date == LocalDate(r.start) IN
        /\ (LocalDate(r.end) = date /\ date \in DOMAIN Ooo)
              => /\ DOMAIN d = {"time", "away"} \cup DefinedFields(Ooo[date])
                 /\ d.away = TRUE
                 /\ \A f \in DefinedFields(Ooo[date]) : d[f] = Ooo[date][f]
        /\ LocalDate(d.time) \notin DOMAIN Ooo => DOMAIN d = {"time"}

\* C21 (out-of-office lookup date): every emitted slot is tagged according to
\* the map entry of its own calendar date in the target timezone: it has
\* away = TRUE and the defined fields of that entry when the date is in the
\* map, and only its time when the date is not in the map.
C21_LookupBySlotDate ==
    \A k \in 1..Len(emitLog) :
        LET d == emitLog[k].data
            date == LocalDate(d.time) IN
        IF date \in DOMAIN Ooo
        THEN /\ DOMAIN d = {"time", "away"} \cup DefinedFields(Ooo[date])
             /\ \A f \in DefinedFields(Ooo[date]) : d[f] = Ooo[date][f]
        ELSE DOMAIN d = {"time"}

\* the distinct elements of a sequence, in the order of their first occurrence
RECURSIVE FirstOccurrences(_)
FirstOccurrences(q) ==
    IF q = <<>> THEN <<>>
    ELSE LET before == FirstOccurrences(SubSeq(q, 1, Len(q) - 1))
             x == q[Len(q)] IN
         IF \E i \in 1..Len(before) : before[i] = x THEN before ELSE Append(before, x)

EmittedTimes == [k \in 1..Len(emitLog) |-> emitLog[k].data.time]

Occurrences(q, x) == Cardinality({i \in 1..Len(q) : q[i] = x})

\* the ranges being processed are the caller's ranges, in ascending order of start
ProcessedAscending ==
    /\ \A i \in 1..Len(InputRanges) :
           Occurrences(dateRanges, InputRanges[i]) = Occurrences(InputRanges, InputRanges[i])
    /\ Len(dateRanges) = Len(InputRanges)
    /\ \A i, j \in 1..Len(dateRanges) : i < j => dateRanges[i].start <= dateRanges[j].start
    /\ \A k, l \in 1..Len(emitLog) : k < l => emitLog[k].range <= emitLog[l].range

\* no instant lies in both ranges (a range whose end is not after its start holds none)
Disjoint(a, b) ==
    a.end <= a.start \/ b.end <= b.start \/ a.end <= b.start \/ b.end <= a.start

PairwiseDisjoint ==
    \A i, j \in 1..Len(InputRanges) : i # j => Disjoint(InputRanges[i], InputRanges[j])

\* C22 (output order): from the sort on, the ranges are processed in ascending
\* order of start whatever order they were passed in; the returned list holds
\* the emitted instants in the order of their first insertion; and when the
\* input ranges are pairwise disjoint the returned list is strictly ascending.
C22_OutputOrder ==
    /\ pc # "call" => ProcessedAscending
    /\ Returned =>
          /\ [i \in 1..Len(result) |-> result[i].time] = FirstOccurrences(EmittedTimes)
          /\ PairwiseDisjoint =>
                \A i, j \in 1..Len(result) : i < j => result[i].time < result[j].time

\* C22 witness: a call has returned after the ranges, passed with the later one
\* first, were processed in ascending order and the later range emitted again
\* an instant that was no longer the last one inserted
C22_Witness ==
    /\ Returned
    /\ Len(InputRanges) = 2
    /\ InputRanges[1].start > InputRanges[2].start
    /\ \E k, l, m \in 1..Len(emitLog) :
          /\ k < l /\ l < m
          /\ emitLog[k].range = 1 /\ emitLog[l].range = 1 /\ emitLog[m].range = 2
          /\ emitLog[k].data.time = emitLog[m].data.time
          /\ emitLog[l].data.time > emitLog[k].data.time

KolkataHourly ==
    /\ getTimeZone(call.args.inviteeDate) = "Asia/Kolkata"
    /\ call.args.frequency = 60

StartsOnLocalHour(r) == MinuteAt(r.start, TargetOffset) = 0 /\ r.start % 60 = 0

\* C8 as claimed: with Asia/Kolkata, frequency 60 and a range starting on a
\* local :00 boundary, every returned slot has local start minute 30.
C8_LocalMinuteThirty ==
    (Returned /\ KolkataHourly /\ \E j \in 1..Len(InputRanges) : StartsOnLocalHour(InputRanges[j]))
        => \A t \in Times(result) : MinuteAt(t, TargetOffset) = 30

\* C8 (amended): with Asia/Kolkata, frequency 60 and a single input range that
\* starts on a local :00 boundary, every returned slot has UTC minute 30, which
\* is local start minute 0.
C8_UtcMinuteThirty ==
    (Returned /\ KolkataHourly /\ Len(InputRanges) = 1 /\ StartsOnLocalHour(InputRanges[1]))
        => \A t \in Times(result) : Minute(t) = 30 /\ MinuteAt(t, TargetOffset) = 0

\* C8 witness: such a call has returned at least two slots.
C8_Witness ==
    /\ Returned /\ KolkataHourly
    /\ Len(InputRanges) = 1 /\ StartsOnLocalHour(InputRanges[1])
    /\ Len(result) >= 2

\* C9 (no mutation of inputs): the caller's dateRanges array holds the same
\* elements in the same order as when getSlots was called.
C9_InputsUnchanged == dateRanges = call.args.dateRanges

Malformed(r) == r.end < r.start

\* the call without the j-th input range
WithoutRange(c, j) ==
    [c EXCEPT !.args.dateRanges =
        SubSeq(c.args.dateRanges, 1, j - 1)
            \o SubSeq(c.args.dateRanges, j + 1, Len(c.args.dateRanges))]

EmittedFrom(r) == \E k \in 1..Len(emitLog) : dateRanges[emitLog[k].range] = r

\* whether the half-hour correction is active in call c
CorrectionActive(c) ==
    ShouldApplyHalfHourOffset(
        getTimeZone(c.args.inviteeDate), c.args.dateRanges,
        SelectInterval(minimumOfOne(c.args.frequency), FallbackInterval(c.scheduleInterval)))

\* C10 as claimed: a range whose end is before its start emits no slot, and the
\* call returns what it returns without that range.
C10_MalformedIgnored ==
    Returned =>
        \A j \in 1..Len(InputRanges) :
            Malformed(InputRanges[j])
                => /\ ~EmittedFrom(InputRanges[j])
                   /\ result = getSlots(WithoutRange(call, j))

\* C10 (amended): a range whose end is before its start emits no slot, and the
\* call returns what it returns without that range whenever removing the range
\* does not change whether the half-hour correction is active.
C10_MalformedEmitsNothing ==
    Returned =>
        \A j \in 1..Len(InputRanges) :
            Malformed(InputRanges[j])
                => /\ ~EmittedFrom(InputRanges[j])
                   /\ CorrectionActive(WithoutRange(call, j)) = CorrectionActive(call)
                         => result = getSlots(WithoutRange(call, j))

\* C10 witness: a call with a malformed range and a well-formed one has returned
\* slots, the malformed range starting after the notice floor.
C10_Witness ==
    /\ Returned /\ result # <<>>
    /\ \E j \in 1..Len(InputRanges) :
          /\ Malformed(InputRanges[j])
          /\ InputRanges[j].start > NoticeFloor
          /\ CorrectionActive(WithoutRange(call, j)) = CorrectionActive(call)

Max(a, b) == IF a > b THEN a ELSE b

Entered == pc # "call"

OffsetSupplied == call.args.offsetStart # <<>>

\* C11 as claimed: once the call has entered, frequency and eventLength are
\* max(value, 1), offsetStart is max(value, 1) whenever a value was supplied
\* (0 and negative values included), and the step is at least 1 minute.
C11_ClampedToOne ==
    Entered =>
        /\ frequency = Max(call.args.frequency, 1)
        /\ eventLength = Max(call.args.eventLength, 1)
        /\ OffsetSupplied => offsetStart = Max(call.args.offsetStart[1], 1)
        /\ step >= 1

\* C11 (amended): once the call has entered, frequency and eventLength are
\* max(value, 1); offsetStart is max(value, 1) when a non-zero value was
\* supplied and 0 when 0 or no value was supplied; the step is at least 1 minute.
C11_ClampedUnlessZero ==
    Entered =>
        /\ frequency = Max(call.args.frequency, 1)
        /\ eventLength = Max(call.args.eventLength, 1)
        /\ (OffsetSupplied /\ call.args.offsetStart[1] # 0)
              => offsetStart = Max(call.args.offsetStart[1], 1)
        /\ (~OffsetSupplied \/ call.args.offsetStart = <<0>>) => offsetStart = 0
        /\ step >= 1

\* C11 witness: a call with frequency 0, a negative eventLength and a negative
\* offsetStart has emitted a slot.
C11_Witness ==
    /\ call.args.frequency = 0 /\ call.args.eventLength < 0
    /\ OffsetSupplied /\ call.args.offsetStart[1] < 0
    /\ emitLog # <<>>

\* C12 (termination): every iteration of a range's emission loop strictly
\* increases the current slot instant, and the call returns.
C12_EmissionAdvances ==
    /\ [][(pc = "emit" /\ pc' = "emit") => currentSlotUTC' > currentSlotUTC]_vars
    /\ <>Returned

\* C12 witness: the half-hour correction is active with a start offset and the
\* emission loop of a range has emitted two slots.
C12_Witness ==
    /\ Len(emitLog) >= 2
    /\ emitLog[1].range = emitLog[2].range
    /\ shouldApplyHalfHourOffset /\ offsetStart > 0

\* the call runs to completion: every step that can be taken is taken
FairSpec == Spec /\ WF_vars(Next)

Fallback == IF call.scheduleInterval = 0 THEN 1 ELSE call.scheduleInterval

Divides(g, n) == n % g = 0

\* C17 (granularity selection): the selected granularity is the first of 60,
\* 30, 20, 15, 10, 5 that divides the clamped frequency and the configured
\* fallback (default 1) when none does; 45 selects 15, 90 selects 30, 120
\* selects 60 and 37 selects the fallback.
C17_GranularitySelection ==
    Entered =>
        /\ interval =
              (IF Divides(60, frequency) THEN 60
               ELSE IF Divides(30, frequency) THEN 30
               ELSE IF Divides(20, frequency) THEN 20
               ELSE IF Divides(15, frequency) THEN 15
               ELSE IF Divides(10, frequency) THEN 10
               ELSE IF Divides(5, frequency) THEN 5
               ELSE Fallback)
        /\ call.args.frequency = 45 => interval = 15
        /\ call.args.frequency = 90 => interval = 30
        /\ call.args.frequency = 120 => interval = 60
        /\ call.args.frequency = 37 => interval = Fallback

\* C17 witness: a call with frequency 37 under a configured fallback of 7 has
\* entered and selected 7.
C17_Witness ==
    /\ Entered
    /\ call.args.frequency = 37 /\ call.scheduleInterval = 7 /\ interval = 7

TargetZone == getTimeZone(call.args.inviteeDate)

SomeRangeStartsAtThirty ==
    \E j \in 1..Len(InputRanges) :
        MinuteAt(InputRanges[j].start, InputRanges[j].utcOffset) = 30

\* the first slot instant of the current range, before the overlap-avoidance pass
AtCandidate == pc = "scan" /\ iter = 1

Unforced(r) ==
    AddMinutes(RoundUpToInterval(EarliestStart(r, startTimeWithMinNotice), interval),
               offsetStart)

\* the minute is forced exactly when `trigger` holds
ForcedExactlyWhen(trigger) ==
    /\ Entered => (shouldApplyHalfHourOffset <=> trigger)
    /\ AtCandidate =>
          IF trigger THEN Minute(slotStartTimeUTC) = 30
          ELSE slotStartTimeUTC = Unforced(dateRanges[rangeIdx])

\* C18 as claimed: slot minutes are forced to 30 exactly when the granularity
\* is 60 and either the zone is Asia/Kolkata or its UTC offset is not a whole
\* number of hours and some input range starts at minute 30.
C18_TriggerByName ==
    ForcedExactlyWhen(
        /\ interval = 60
        /\ \/ TargetZone = "Asia/Kolkata"
           \/ TargetOffset % 60 # 0 /\ SomeRangeStartsAtThirty)

\* C18 (amended): slot minutes are forced to 30 exactly when the granularity is
\* 60 and either the zone is Asia/Kolkata, or its UTC offset is +5:30 (330
\* minutes), or its UTC offset is not a whole number of hours and some input
\* range starts at minute 30.
C18_TriggerByNameOrOffset ==
    ForcedExactlyWhen(
        /\ interval = 60
        /\ \/ TargetZone = "Asia/Kolkata"
           \/ TargetOffset = 330
           \/ TargetOffset % 60 # 0 /\ SomeRangeStartsAtThirty)

\* C18 witness: in Asia/Colombo, with granularity 60 and no range starting at
\* minute 30, the first slot instant of a range was forced to minute 30.
C18_Witness ==
    /\ AtCandidate
    /\ TargetZone = "Asia/Colombo" /\ interval = 60 /\ ~SomeRangeStartsAtThirty
    /\ slotStartTimeUTC # Unforced(dateRanges[rangeIdx])

\* C19 (correction after overlap avoidance): when the half-hour correction is
\* active, the first slot of every range, and so every slot placed or
\* returned, has UTC minute 30.
C19_MinuteThirtyAfterScan ==
    shouldApplyHalfHourOffset =>
        /\ pc = "emit" => Minute(currentSlotUTC) = 30
        /\ \A t \in SlotTimes \cup Times(result) : Minute(t) = 30

\* the key the overlap-avoidance pass is at
ScannedKey == ParseISO(slots[iter].key)

InWindowOf(e, c) == e < c /\ c < AddMinutes(e, step)

\* C20 (snap versus advance): an iteration of the pass over a placed slot e with
\* e < candidate < e + step makes the candidate e when e is not before the
\* start of the range and e + step otherwise; an iteration over any other slot,
\* and so a pass over no such slot, leaves the candidate unchanged; after the
\* pass the candidate is not before the start of the range.
C20_SnapOrAdvance ==
    /\ [][(pc = "scan" /\ iter' = iter + 1) =>
            slotStartTime' =
               (IF InWindowOf(ScannedKey, slotStartTime)
                THEN IF ScannedKey >= dateRanges[rangeIdx].start
                     THEN ScannedKey
                     ELSE AddMinutes(ScannedKey, step)
                ELSE slotStartTime)]_vars
    /\ [][(pc = "scan" /\ pc' = "emit") =>
            /\ currentSlotUTC' >= dateRanges[rangeIdx].start
            /\ (\A i \in 1..Len(slots) :
                   ~InWindowOf(ParseISO(slots[i].key),
                               CandidateStart(dateRanges[rangeIdx], startTimeWithMinNotice,
                                              interval, offsetStart, shouldApplyHalfHourOffset)))
                  => currentSlotUTC' =
                        CandidateStart(dateRanges[rangeIdx], startTimeWithMinNotice,
                                       interval, offsetStart, shouldApplyHalfHourOffset)]_vars

\* C20 witness: the pass has advanced the candidate past a slot that lies before
\* the start of the range.
C20_Witness ==
    /\ pc = "scan" /\ iter > 1 /\ iter <= Len(slots) + 1
    /\ \E i \in 1..(iter - 1) :
          /\ ParseISO(slots[i].key) < dateRanges[rangeIdx].start
          /\ slotStartTime = AddMinutes(ParseISO(slots[i].key), step)
    /\ \E i \in 1..(iter - 1) :
          ParseISO(slots[i].key) >= dateRanges[rangeIdx].start

\* C13 (determinism): a call returns the list that the earlier call with the
\* same arguments, clock and fallback granularity returned: the same slots in
\* the same order.
C13_SameResultAgain ==
    Returned => \A i \in 1..Len(earlier) : earlier[i] = result

\* C13 witness: a second call has returned at least two slots from an array of
\* ranges that the first call was given in another order.
C13_Witness ==
    /\ Returned /\ earlier # <<>>
    /\ Len(result) >= 2
    /\ dateRanges # call.args.dateRanges

(***************************************************************************)
(* The calendar-cache cron handler: values and pure helpers.               *)
(***************************************************************************)
Undefined == [type |-> "undefined"]
Num(n) == [type |-> "number", v |-> n]
\* new Error(message)
Err(m) == [type |-> "error", message |-> m]

\* a template literal with one substitution, `${x}`
TemplateString(x) ==
    CASE x.type = "undefined" -> "undefined"
      [] x.type = "null" -> "null"
      [] x.type = "string" -> x.v
      [] x.type = "number" -> ToString(x.v)

\* a || b
OrElse(a, b) == IF Truthy(a) THEN a ELSE b

\* Array.prototype.includes, looking for the string s
Includes(array, s) == \E i \in 1..Len(array) : array[i] = Str(s)

\* TRUE when validateRequest returns, FALSE when it throws the HttpError
validateRequest(req, env) ==
    LET apiKey == OrElse(req.authorization, req.apiKey) IN
    Includes(<<env.CRON_API_KEY, Str("Bearer " \o TemplateString(env.CRON_SECRET))>>,
             TemplateString(apiKey))

\* String(value)
StringOf(x) ==
    IF x.type = "error" THEN "Error: " \o x.message ELSE TemplateString(x)

\* mutant of ErrorMessage: the Error's message is not singled out
ErrorMessageAlwaysString(error) == StringOf(error)

\* error instanceof Error ? error.message : String(error)
ErrorMessage(error) ==
    IF error.type = "error" THEN error.message ELSE StringOf(error)

\* the entry the reducer creates for the first row of an externalId
Entry(sc) ==
    [externalId |-> sc.externalId, eventTypeIds |-> <<sc.eventTypeId>>,
     credentialId |-> sc.credentialId, id |-> sc.id]

\* mutant of PushEventTypeId: an eventTypeId already in the list is not added
PushEventTypeIdOnce(entry, sc) ==
    IF \E i \in 1..Len(entry.eventTypeIds) : entry.eventTypeIds[i] = sc.eventTypeId THEN entry
    ELSE [entry EXCEPT !.eventTypeIds = Append(@, sc.eventTypeId)]

\* acc[sc.externalId].eventTypeIds.push(sc.eventTypeId)
PushEventTypeId(entry, sc) == [entry EXCEPT !.eventTypeIds = Append(@, sc.eventTypeId)]

\* mutant of getUniqueCalendarsByExternalId: one entry per row
getCalendarsPerRow(calendars) == [i \in 1..Len(calendars) |-> Entry(calendars[i])]

\* The reduce over the batch; the result is Object.entries of the accumulator,
\* in the order the keys were created.
RECURSIVE getUniqueCalendarsByExternalId(_)
getUniqueCalendarsByExternalId(calendars) ==
    IF calendars = <<>> THEN <<>>
    ELSE LET n == Len(calendars)
             acc == getUniqueCalendarsByExternalId(SubSeq(calendars, 1, n - 1))
             sc == calendars[n]
             hit == {i \in 1..Len(acc) : acc[i].externalId = sc.externalId} IN
         IF hit = {} THEN Append(acc, Entry(sc))
         ELSE [acc EXCEPT ![CHOOSE i \in hit : TRUE] = PushEventTypeId(@, sc)]

\* mutant of MissingCredential: only null counts as missing
MissingCredentialNullOnly(credentialId) == credentialId.type = "null"

\* !credentialId, for a number or null
MissingCredential(credentialId) ==
    ~(credentialId.type = "number" /\ credentialId.v # 0)

Operations == {"watch", "unwatch"}

\* mutant of PromiseAllSettled: Promise.all, which rejects with the first rejection
PromiseAll(statuses) ==
    IF \E i \in 1..Len(statuses) : statuses[i] = "rejected" THEN "rejected"
    ELSE IF \A i \in 1..Len(statuses) : statuses[i] = "fulfilled" THEN "fulfilled"
    ELSE "pending"

\* Promise.allSettled: fulfilled once every promise has settled, never rejected
PromiseAllSettled(statuses) ==
    IF \A i \in 1..Len(statuses) : statuses[i] \in {"fulfilled", "rejected"} THEN "fulfilled"
    ELSE "pending"

\* the state of a promise whose async function is at this position
StatusAt(at) == IF at \in {"fulfilled", "rejected"} THEN at ELSE "pending"

\* the method of the CalendarCache the operation calls
MethodOf(op) == IF op = "watch" THEN "watchCalendar" ELSE "unwatchCalendar"

\* The callback of the map runs up to its first await: it has called
\* updateById or initFromCredentialId and waits for it.
StartTask(entry) ==
    [entry |-> entry,
     at |-> IF MissingCredential(entry.credentialId) THEN "updateMissing" ELSE "init"]

RECURSIVE BagOfSeq(_)
BagOfSeq(q) == IF q = <<>> THEN EmptyBag ELSE BagOfSeq(Tail(q)) (+) SetToBag({Head(q)})

\* the updateById calls the callbacks make before their first await
MissingUpdates(op, tasks) ==
    LET IsMissing(t) == t.at = "updateMissing"
        missing == SelectSeq(tasks, IsMissing) IN
    BagOfSeq([i \in 1..Len(missing) |->
                [op |-> op, id |-> missing[i].entry.id, error |-> "Missing credentialId"]])

\* the initFromCredentialId calls the callbacks make before their first await
FirstInits(op, tasks) ==
    LET IsInit(t) == t.at = "init"
        first == SelectSeq(tasks, IsInit) IN
    BagOfSeq([i \in 1..Len(first) |->
                [op |-> op, externalId |-> first[i].entry.externalId,
                 credentialId |-> first[i].entry.credentialId]])

Rejection(op, fn, subject, value) ==
    [op |-> op, fn |-> fn, subject |-> subject, value |-> value]

(***************************************************************************)
(* The requests, environments and batches explored.                        *)
(***************************************************************************)
MaxBatch == 2

Row(e, et, c, id) == [externalId |-> e, eventTypeId |-> et, credentialId |-> c, id |-> id]

Sc1 == Row("cal-a", Num(1), Num(1), "sc-1")
Sc2 == Row("cal-a", Num(2), Null, "sc-2")
Sc3 == Row("cal-b", Null, Num(0), "sc-3")
Sc4 == Row("cal-b", Num(3), Num(2), "sc-4")
Sc5 == Row("cal-a", Num(1), Num(2), "sc-5")

RowPool == {Sc1, Sc2, Sc3, Sc4}

\* batches of distinct rows
Batches(n) ==
    {q \in SeqsUpTo(RowPool, n) : \A i, j \in 1..Len(q) : q[i].id = q[j].id => i = j}

UnwatchBatches == {<<>>, <<Sc1>>, <<Sc3>>}

\* what watchCalendar / unwatchCalendar may reject with
Thrown == {Err("Calendar operation failed"), Str("String error"), Num(503)}

Job(request, env, watch, unwatch) ==
    [request |-> request, env |-> env,
     batch |-> [watch |-> watch, unwatch |-> unwatch],
     now |-> At(9, 0, 0)]

\* the request and the environment of the test file
TestRequest == [authorization |-> Str("test-api-key"), apiKey |-> Undefined]
TestEnv == [CRON_API_KEY |-> Str("test-api-key"), CRON_SECRET |-> Undefined]

BatchJobs ==
    {Job(TestRequest, TestEnv, w, u) : w \in Batches(MaxBatch), u \in UnwatchBatches}

\* two rows of one calendar with the same eventTypeId and different credentials
DuplicateJobs ==
    {Job(TestRequest, TestEnv, w, <<Sc5>>) : w \in {<<Sc1, Sc5>>, <<Sc5, Sc1>>}}

AuthJobs ==
    {Job([authorization |-> h, apiKey |-> q], [CRON_API_KEY |-> k, CRON_SECRET |-> s],
         <<Sc1>>, <<Sc1>>) :
        h \in {Undefined, Str(""), Str("test-api-key"), Str("Bearer s3cret"), Str("wrong"),
               Str("Bearer undefined"), Str("undefined")},
        q \in {Undefined, Str("test-api-key")},
        k \in {Undefined, Str("test-api-key")},
        s \in {Undefined, Str("s3cret")}}

Jobs == BatchJobs \cup DuplicateJobs \cup AuthJobs

(***************************************************************************)
(* The handler as a state machine.  A step runs the code from one await to *)
(* the next; what an external call answers is chosen when it settles.      *)
(* console.log and console.error change no state and are left out.         *)
(***************************************************************************)
\* no getSlots call is in progress
SlotIdle ==
    /\ call = <<>>
    /\ dateRanges = <<>>
    /\ pc = "idle"
    /\ frequency = 0 /\ eventLength = 0 /\ offsetStart = 0
    /\ interval = 0
    /\ startTimeWithMinNotice = 0
    /\ shouldApplyHalfHourOffset = FALSE
    /\ slots = <<>>
    /\ rangeIdx = 0
    /\ dateYYYYMMDD = 0
    /\ slotStartTimeUTC = 0 /\ slotStartTime = 0
    /\ iter = 0
    /\ currentSlotUTC = 0
    /\ result = <<>>
    /\ earlier = <<>>
    /\ emitLog = <<>>

CronInit ==
    /\ job \in Jobs
    /\ hpc = "start"
    /\ ops = [op \in Operations |-> [at |-> "idle", tasks |-> <<>>]]
    /\ fetches = [op \in Operations |-> 0]
    /\ inits = EmptyBag
    /\ operations = EmptyBag
    /\ updates = EmptyBag
    /\ rejected = {}
    /\ response = <<>>
    /\ SlotIdle
    /\ TeamsIdle

\* validateRequest throws: the request fails with 401
HandlerUnauthorized ==
    /\ hpc = "start"
    /\ ~validateRequest(job.request, job.env)
    /\ hpc' = "failed"
    /\ response' = [statusCode |-> 401, message |-> "Unauthorized"]
    /\ UNCHANGED <<slotVars, teamsVars, job, ops, fetches, inits, operations, updates, rejected>>

\* validateRequest returns; both handleCalendarOperation calls run up to
\* `await getBatch()`, and the handler awaits the two of them
HandlerStart ==
    /\ hpc = "start"
    /\ validateRequest(job.request, job.env)
    /\ hpc' = "awaiting"
    /\ fetches' = [op \in Operations |-> fetches[op] + 1]
    /\ ops' = [op \in Operations |-> [at |-> "getBatch", tasks |-> <<>>]]
    /\ UNCHANGED <<slotVars, teamsVars, job, inits, operations, updates, rejected, response>>

\* getBatch resolves: the rows are grouped and every callback starts
BatchResolves ==
    \E op \in Operations :
        /\ ops[op].at = "getBatch"
        /\ \E entries \in {getUniqueCalendarsByExternalId(job.batch[op])} :
           \E tasks \in {[i \in 1..Len(entries) |-> StartTask(entries[i])]} :
           /\ ops' = [ops EXCEPT ![op] = [at |-> "allSettled", tasks |-> tasks]]
           /\ updates' = updates (+) MissingUpdates(op, tasks)
           /\ inits' = inits (+) FirstInits(op, tasks)
        /\ UNCHANGED <<slotVars, teamsVars, job, hpc, fetches, operations, rejected, response>>

\* getBatch rejects: this handleCalendarOperation rejects
BatchRejects ==
    \E op \in Operations :
        /\ ops[op].at = "getBatch"
        /\ ops' = [ops EXCEPT ![op].at = "rejected"]
        /\ rejected' = rejected \cup {Rejection(op, "getBatch", "", Undefined)}
        /\ UNCHANGED <<slotVars, teamsVars, job, hpc, fetches, inits, operations, updates, response>>

\* initFromCredentialId resolves: the callback calls the method of the cache
InitResolves ==
    \E op \in Operations : \E i \in 1..Len(ops[op].tasks) :
        LET t == ops[op].tasks[i] IN
        /\ t.at = "init"
        /\ ops' = [ops EXCEPT ![op].tasks[i].at = "operation"]
        /\ operations' = operations (+) SetToBag({[op |-> op, method |-> MethodOf(op),
                                                    calendarId |-> t.entry.externalId,
                                                    eventTypeIds |-> t.entry.eventTypeIds]})
        /\ UNCHANGED <<slotVars, teamsVars, job, hpc, fetches, inits, updates, rejected, response>>

\* initFromCredentialId rejects, outside the try: the callback rejects
InitRejects ==
    \E op \in Operations : \E i \in 1..Len(ops[op].tasks) :
        LET t == ops[op].tasks[i] IN
        /\ t.at = "init"
        /\ ops' = [ops EXCEPT ![op].tasks[i].at = "rejected"]
        /\ rejected' = rejected \cup
                {Rejection(op, "initFromCredentialId", t.entry.externalId, Undefined)}
        /\ UNCHANGED <<slotVars, teamsVars, job, hpc, fetches, inits, operations, updates, response>>

\* watchCalendar / unwatchCalendar resolves: the callback is fulfilled
OperationResolves ==
    \E op \in Operations : \E i \in 1..Len(ops[op].tasks) :
        /\ ops[op].tasks[i].at = "operation"
        /\ ops' = [ops EXCEPT ![op].tasks[i].at = "fulfilled"]
        /\ UNCHANGED <<slotVars, teamsVars, job, hpc, fetches, inits, operations, updates, rejected,
                       response>>

\* watchCalendar / unwatchCalendar rejects: the catch block records the error
OperationRejects ==
    \E op \in Operations : \E i \in 1..Len(ops[op].tasks) : \E error \in Thrown :
        LET t == ops[op].tasks[i] IN
        /\ t.at = "operation"
        /\ ops' = [ops EXCEPT ![op].tasks[i].at = "updateError"]
        /\ updates' = updates (+) SetToBag({[op |-> op, id |-> t.entry.id,
                                              error |-> ErrorMessage(error)]})
        /\ rejected' = rejected \cup {Rejection(op, MethodOf(op), t.entry.externalId, error)}
        /\ UNCHANGED <<slotVars, teamsVars, job, hpc, fetches, inits, operations, response>>

\* updateById resolves: the callback is fulfilled
UpdateResolves ==
    \E op \in Operations : \E i \in 1..Len(ops[op].tasks) :
        /\ ops[op].tasks[i].at \in {"updateMissing", "updateError"}
        /\ ops' = [ops EXCEPT ![op].tasks[i].at = "fulfilled"]
        /\ UNCHANGED <<slotVars, teamsVars, job, hpc, fetches, inits, operations, updates, rejected,
                       response>>

\* updateById rejects: the callback rejects
UpdateRejects ==
    \E op \in Operations : \E i \in 1..Len(ops[op].tasks) :
        LET t == ops[op].tasks[i] IN
        /\ t.at \in {"updateMissing", "updateError"}
        /\ ops' = [ops EXCEPT ![op].tasks[i].at = "rejected"]
        /\ rejected' = rejected \cup {Rejection(op, "updateById", t.entry.id, Undefined)}
        /\ UNCHANGED <<slotVars, teamsVars, job, hpc, fetches, inits, operations, updates, response>>

\* Promise.allSettled over the callbacks settles: handleCalendarOperation returns
AllSettled ==
    \E op \in Operations :
        LET outcome == PromiseAllSettled([i \in 1..Len(ops[op].tasks) |->
                                            StatusAt(ops[op].tasks[i].at)]) IN
        /\ ops[op].at = "allSettled"
        /\ outcome # "pending"
        /\ ops' = [ops EXCEPT ![op].at = outcome]
        /\ UNCHANGED <<slotVars, teamsVars, job, hpc, fetches, inits, operations, updates, rejected,
                       response>>

\* Promise.allSettled over the two operations settles: the await ends and the
\* handler returns (an await of a rejected promise would throw instead)
HandlerReturns ==
    LET outcome == PromiseAllSettled(<<StatusAt(ops["watch"].at), StatusAt(ops["unwatch"].at)>>) IN
    /\ hpc = "awaiting"
    /\ outcome # "pending"
    /\ IF outcome = "fulfilled"
       THEN /\ hpc' = "responded"
            /\ response' = [executedAt |-> ToISOString(job.now)]
       ELSE /\ hpc' = "failed"
            /\ response' = [thrown |-> TRUE]
    /\ UNCHANGED <<slotVars, teamsVars, job, ops, fetches, inits, operations, updates, rejected>>

CronNext ==
    \/ HandlerUnauthorized \/ HandlerStart
    \/ BatchResolves \/ BatchRejects
    \/ InitResolves \/ InitRejects
    \/ OperationResolves \/ OperationRejects
    \/ UpdateResolves \/ UpdateRejects
    \/ AllSettled \/ HandlerReturns

SpecCron == CronInit /\ [][CronNext]_vars

\* every external call that was made settles, and the event loop runs what is ready
FairSpecCron == SpecCron /\ WF_vars(CronNext)

(***************************************************************************)
(* Properties of the cron handler.  They are stated over the job and the   *)
(* logs of the external calls, not over the entries the handler builds.    *)
(***************************************************************************)
Responded == hpc = "responded" /\ "executedAt" \in DOMAIN response

BatchOf(op) == job.batch[op]

ExternalIds(op) == {BatchOf(op)[k].externalId : k \in 1..Len(BatchOf(op))}

\* the rows of the batch with this externalId, by position
RowsOf(op, e) == {k \in 1..Len(BatchOf(op)) : BatchOf(op)[k].externalId = e}

FirstRow(op, e) ==
    BatchOf(op)[CHOOSE k \in RowsOf(op, e) : \A l \in RowsOf(op, e) : k <= l]

\* the eventTypeId of every row with this externalId, in batch order
EventTypeIdsOf(op, e) ==
    LET IsE(sc) == sc.externalId = e
        rows == SelectSeq(BatchOf(op), IsE) IN
    [k \in 1..Len(rows) |-> rows[k].eventTypeId]

HasCredential(row) == row.credentialId.type = "number" /\ row.credentialId.v # 0

\* getBatch has resolved for this operation
Fetched(op) == ops[op].at \in {"allSettled", "fulfilled"}

HasRejected(op, fn, subject) ==
    \E r \in rejected : r.op = op /\ r.fn = fn /\ r.subject = subject

ExpectedCall(op, e) ==
    [op |-> op, method |-> IF op = "watch" THEN "watchCalendar" ELSE "unwatchCalendar",
     calendarId |-> e, eventTypeIds |-> EventTypeIdsOf(op, e)]

\* the method of the cache was called once for this externalId, with the expected argument
CalledExactlyOnce(op, e) ==
    /\ CopiesIn(ExpectedCall(op, e), operations) = 1
    /\ \A c \in BagToSet(operations) :
           c.op = op /\ c.calendarId = e => c = ExpectedCall(op, e)

NothingStartedFor(op, e) ==
    /\ \A c \in BagToSet(inits) : ~(c.op = op /\ c.externalId = e)
    /\ \A c \in BagToSet(operations) : ~(c.op = op /\ c.calendarId = e)

MissingRecord(op, row) == [op |-> op, id |-> row.id, error |-> "Missing credentialId"]

OperationRejections == {r \in rejected : r.fn \in {"watchCalendar", "unwatchCalendar"}}

\* the text the claim asks for: the Error's message, or the value as a string
ExpectedError(value) ==
    CASE value.type = "error" -> value.message
      [] value.type = "string" -> value.v
      [] value.type = "number" /\ value.v = 503 -> "503"

FailureRecorded(r) ==
    CopiesIn([op |-> r.op, id |-> FirstRow(r.op, r.subject).id,
              error |-> ExpectedError(r.value)], updates) = 1

\* C16: whenever watchCalendar or unwatchCalendar has rejected for a calendar,
\* updateById has been called once for its selected calendar with the Error's
\* message, or with the rejected value as a string, and the request has not
\* failed; and the request is then eventually answered with executedAt.
C16_FailureRecorded ==
    /\ [](\A r \in OperationRejections : FailureRecorded(r) /\ hpc # "failed")
    /\ (OperationRejections # {}) ~> Responded

\* C16 witness: the request is answered after watchCalendar rejected with a
\* value that is not an Error and unwatchCalendar rejected with an Error, and
\* one of the two updateById calls rejected as well
C16_Witness ==
    /\ Responded
    /\ \E r, q \in OperationRejections :
           /\ r.op = "watch" /\ r.value.type = "string" /\ FailureRecorded(r)
           /\ q.op = "unwatch" /\ q.value.type = "error" /\ FailureRecorded(q)
    /\ \E u \in rejected : u.fn = "updateById"

\* the header or the query parameter carries a value
Present(x) == x.type = "string" /\ x.v # ""

\* the key of the authorization header or, failing that, of the apiKey query parameter
PresentedKey ==
    IF Present(job.request.authorization) THEN job.request.authorization
    ELSE job.request.apiKey

\* the environment variable is set
Configured(name) == job.env[name].type = "string"

\* the presented key equals CRON_API_KEY, or "Bearer " followed by CRON_SECRET
KeyMatches ==
    /\ PresentedKey.type = "string"
    /\ \/ Configured("CRON_API_KEY") /\ PresentedKey.v = job.env.CRON_API_KEY.v
       \/ Configured("CRON_SECRET") /\ PresentedKey.v = "Bearer " \o job.env.CRON_SECRET.v

NoExternalCall ==
    /\ \A op \in Operations : fetches[op] = 0
    /\ inits = EmptyBag
    /\ operations = EmptyBag
    /\ updates = EmptyBag

\* C23 (authorization order): once a request whose presented key equals neither
\* CRON_API_KEY nor "Bearer " followed by CRON_SECRET has been handled, it has
\* failed with 401 and no batch was fetched, no CalendarCache initialised, no
\* watchCalendar/unwatchCalendar called and no updateById written.
C23_UnauthorizedDoesNothing ==
    (hpc # "start" /\ ~KeyMatches) =>
        /\ hpc = "failed"
        /\ response.statusCode = 401
        /\ NoExternalCall

\* C24 (a configured secret is needed): a request is accepted only when its
\* presented key equals CRON_API_KEY and CRON_API_KEY is set, or equals
\* "Bearer " followed by CRON_SECRET and CRON_SECRET is set; an unset variable
\* makes no key acceptable, "Bearer undefined", "undefined" and an absent key
\* included.
C24_AcceptedOnlyWithConfiguredSecret ==
    hpc \in {"awaiting", "responded"} =>
        \/ /\ Configured("CRON_API_KEY")
           /\ PresentedKey = job.env.CRON_API_KEY
        \/ /\ Configured("CRON_SECRET")
           /\ PresentedKey.type = "string"
           /\ PresentedKey.v = "Bearer " \o job.env.CRON_SECRET.v

\* the callback of this externalId has made its first call
Attempted(op, e) ==
    IF HasCredential(FirstRow(op, e))
    THEN \E c \in BagToSet(inits) : c.op = op /\ c.externalId = e
    ELSE CopiesIn(MissingRecord(op, FirstRow(op, e)), updates) >= 1

\* every calendar of every fetched batch was taken as far as its own calls allowed
AllAttempted ==
    \A op \in Operations :
        /\ fetches[op] = 1
        /\ Fetched(op) =>
              \A e \in ExternalIds(op) :
                  /\ Attempted(op, e)
                  /\ (/\ hpc = "responded"
                      /\ HasCredential(FirstRow(op, e))
                      /\ ~HasRejected(op, "initFromCredentialId", e))
                     => CopiesIn(ExpectedCall(op, e), operations) >= 1

\* C25 (failure isolation): once an external call has rejected, the request has
\* not failed, both batches have been asked for, every calendar of a fetched
\* batch has had its first call made and, when the request is answered, its
\* watchCalendar/unwatchCalendar call too unless its own CalendarCache could not
\* be initialised; and the request is eventually answered with executedAt.
C25_FailureIsolation ==
    /\ [](rejected # {} => (hpc \in {"awaiting", "responded"} /\ AllAttempted))
    /\ (rejected # {}) ~> Responded

\* C25 witness: the request is answered although the unwatch batch could not be
\* fetched and, in the watch batch, the CalendarCache of one calendar could not
\* be initialised while the other calendar was watched
C25_Witness ==
    /\ Responded
    /\ HasRejected("unwatch", "getBatch", "")
    /\ \E e, f \in ExternalIds("watch") :
           /\ HasRejected("watch", "initFromCredentialId", e)
           /\ e # f
           /\ CalledExactlyOnce("watch", f)

\* the entries the handler works on, as the callbacks received them
EntriesOf(op) == [i \in 1..Len(ops[op].tasks) |-> ops[op].tasks[i].entry]

MAX_RETRY_ATTEMPTS == 2

\* String.prototype.includes
StringIncludes(message, part) ==
    \E i \in 1..(Len(message) - Len(part) + 1) :
        SubSeq(message, i, i + Len(part) - 1) = part

\* mutant of isAuthError: the list of updateMeeting, without "access token expired"
isAuthErrorShortList(errorMessage) ==
    \/ StringIncludes(errorMessage, <<"Invalid", "token">>)
    \/ StringIncludes(errorMessage, <<"invalid_grant">>)
    \/ StringIncludes(errorMessage, <<"Microsoft", "authentication", "error">>)

isAuthError(errorMessage) ==
    \/ StringIncludes(errorMessage, <<"Invalid", "token">>)
    \/ StringIncludes(errorMessage, <<"invalid_grant">>)
    \/ StringIncludes(errorMessage, <<"Microsoft", "authentication", "error">>)
    \/ StringIncludes(errorMessage, <<"access", "token", "expired">>)

\* mutant of MayRetry: one retry more
MayRetryOnceMore(count) == count <= MAX_RETRY_ATTEMPTS

\* retryCount < MAX_RETRY_ATTEMPTS
MayRetry(count) == count < MAX_RETRY_ATTEMPTS

\* the parsed body of the onlineMeetings response
ResultObject(id, joinUrl, joinWebUrl, error) ==
    [id |-> id, joinUrl |-> joinUrl, joinWebUrl |-> joinWebUrl, error |-> error]

\* !resultObject.id || !resultObject.joinUrl || !resultObject.joinWebUrl
Incomplete(resultObject) ==
    ~Truthy(resultObject.id) \/ ~Truthy(resultObject.joinUrl) \/ ~Truthy(resultObject.joinWebUrl)

\* the HttpError thrown for an incomplete result
IncompleteError(resultObject) ==
    Err(<<"Error", "creating", "MS", "Teams", "meeting:">> \o
            (IF resultObject.error = Undefined THEN <<"Unknown", "error">>
             ELSE resultObject.error.message))

VideoCallData(resultObject) ==
    [type |-> "office365_video", id |-> resultObject.id, password |-> "",
     url |-> OrElse(resultObject.joinWebUrl, resultObject.joinUrl)]

\* How the try block of attemptCreateMeeting ends, given what the request
\* produced: a result object, or an exception of getUserEndpoint, requestRaw,
\* handleErrorsRaw or JSON.parse.
TryBlock(produced) ==
    IF produced.kind = "throw" THEN [ok |-> FALSE, error |-> produced.error]
    ELSE IF Incomplete(produced.resultObject)
         THEN [ok |-> FALSE, error |-> IncompleteError(produced.resultObject)]
         ELSE [ok |-> TRUE, data |-> VideoCallData(produced.resultObject)]

\* the Error thrown once the retries are used up
ConnectionError ==
    Err(<<"ms_teams_connection_error", "ms_teams_connection_error_fallback",
          "ms_teams_connection_error_instruction">>)

Threw(error) == [kind |-> "throw", error |-> error]
Produced(resultObject) == [kind |-> "result", resultObject |-> resultObject]

\* what one request may produce
Productions ==
    { Produced(ResultObject(Str("m1"), Str("join"), Str("web"), Undefined)),
      Produced(ResultObject(Str("m1"), Undefined, Str("web"), Undefined)),
      Produced(ResultObject(Undefined, Undefined, Undefined, [message |-> <<"invalid_grant">>])),
      Threw(Err(<<"Invalid", "token", "response">>)),
      Threw(Err(<<"AADSTS70000:", "invalid_grant">>)),
      Threw(Err(<<"Microsoft", "authentication", "error">>)),
      Threw(Err(<<"The", "access", "token", "expired">>)),
      Threw(Err(<<"invalid", "token">>)),
      Threw(Err(<<"Delegation", "credential", "without", "clientId", "or", "Secret">>)),
      Threw([type |-> "string", v |-> <<"access", "token", "expired">>]),
      Threw([type |-> "string", v |-> <<"Service", "unavailable">>]) }

\* what invalidateCredential or getTranslation may reject with
StoreError == Err(<<"Can't", "reach", "database", "server">>)

TeamsInit ==
    /\ tpc = "attempt"
    /\ retryCount = 0
    /\ attemptLog = <<>>
    /\ invalidations = 0
    /\ meeting = <<>>
    /\ SlotIdle
    /\ CronIdle

\* an attempt ends in the try block: createMeeting returns the meeting
AttemptSucceeds ==
    \E produced \in Productions :
        \E ended \in {TryBlock(produced)} :
            /\ tpc = "attempt"
            /\ ended.ok
            /\ attemptLog' = Append(attemptLog, ended)
            /\ tpc' = "returned"
            /\ meeting' = [returned |-> ended.data]
            /\ UNCHANGED <<slotVars, cronVars, retryCount, invalidations>>

\* an attempt fails with an authentication error and a retry is left: wait a second
AttemptFailsRetry ==
    \E produced \in Productions :
        \E ended \in {TryBlock(produced)} :
            /\ tpc = "attempt"
            /\ ~ended.ok
            /\ isAuthError(ErrorMessage(ended.error)) /\ MayRetry(retryCount)
            /\ attemptLog' = Append(attemptLog, ended)
            /\ retryCount' = retryCount + 1
            /\ tpc' = "sleep"
            /\ UNCHANGED <<slotVars, cronVars, invalidations, meeting>>

\* the timer fires: attemptCreateMeeting is called again
TimerFires ==
    /\ tpc = "sleep"
    /\ tpc' = "attempt"
    /\ UNCHANGED <<slotVars, cronVars, retryCount, attemptLog, invalidations, meeting>>

\* an attempt fails with an authentication error and no retry is left:
\* the credential is invalidated
AttemptFailsExhausted ==
    \E produced \in Productions :
        \E ended \in {TryBlock(produced)} :
            /\ tpc = "attempt"
            /\ ~ended.ok
            /\ isAuthError(ErrorMessage(ended.error)) /\ ~MayRetry(retryCount)
            /\ attemptLog' = Append(attemptLog, ended)
            /\ invalidations' = invalidations + 1
            /\ tpc' = "invalidateCredential"
            /\ UNCHANGED <<slotVars, cronVars, retryCount, meeting>>

\* an attempt fails with another error: it is thrown again
AttemptFailsOther ==
    \E produced \in Productions :
        \E ended \in {TryBlock(produced)} :
            /\ tpc = "attempt"
            /\ ~ended.ok
            /\ ~isAuthError(ErrorMessage(ended.error))
            /\ attemptLog' = Append(attemptLog, ended)
            /\ tpc' = "thrown"
            /\ meeting' = [thrown |-> ended.error]
            /\ UNCHANGED <<slotVars, cronVars, retryCount, invalidations>>

\* invalidateCredential settles: on to getTranslation, or its rejection is thrown
InvalidateSettles ==
    /\ tpc = "invalidateCredential"
    /\ \/ tpc' = "getTranslation" /\ UNCHANGED meeting
       \/ tpc' = "thrown" /\ meeting' = [thrown |-> StoreError]
    /\ UNCHANGED <<slotVars, cronVars, retryCount, attemptLog, invalidations>>

\* getTranslation settles: the connection error, or its rejection, is thrown
TranslationSettles ==
    /\ tpc = "getTranslation"
    /\ tpc' = "thrown"
    /\ meeting' \in {[thrown |-> ConnectionError], [thrown |-> StoreError]}
    /\ UNCHANGED <<slotVars, cronVars, retryCount, attemptLog, invalidations>>

TeamsNext ==
    \/ AttemptSucceeds \/ AttemptFailsRetry \/ TimerFires
    \/ AttemptFailsExhausted \/ AttemptFailsOther
    \/ InvalidateSettles \/ TranslationSettles

SpecTeams == TeamsInit /\ [][TeamsNext]_vars

\* every request, timer and external call of createMeeting settles
FairSpecTeams == SpecTeams /\ WF_vars(TeamsNext)

(***************************************************************************)
(* Properties of createMeeting.                                            *)
(***************************************************************************)
Ended == tpc \in {"returned", "thrown"}

\* the message of the error an attempt failed with
FailureMessage(ended) ==
    IF ended.error.type = "error" THEN ended.error.message ELSE ended.error.v

\* the message holds part as consecutive words
Contains(message, part) ==
    \E i \in 1..Len(message) :
        /\ i + Len(part) - 1 <= Len(message)
        /\ \A j \in 1..Len(part) : message[i + j - 1] = part[j]

\* the attempt failed with an authentication error
FailedOnAuthentication(ended) ==
    /\ ~ended.ok
    /\ \/ Contains(FailureMessage(ended), <<"Invalid", "token">>)
       \/ Contains(FailureMessage(ended), <<"invalid_grant">>)
       \/ Contains(FailureMessage(ended), <<"Microsoft", "authentication", "error">>)
       \/ Contains(FailureMessage(ended), <<"access", "token", "expired">>)

LastAttempt == attemptLog[Len(attemptLog)]

\* C27 (retry bound): a createMeeting call makes at most 3 attempts; every
\* attempt but the last one failed with an authentication error; once an
\* attempt has failed with another error, that error is thrown with no further
\* attempt; and the call eventually returns or throws.
C27_RetryBound ==
    /\ [](/\ Len(attemptLog) <= 3
          /\ \A k \in 1..(Len(attemptLog) - 1) : FailedOnAuthentication(attemptLog[k])
          /\ (attemptLog # <<>> /\ ~LastAttempt.ok /\ ~FailedOnAuthentication(LastAttempt))
                => (tpc = "thrown" /\ meeting = [thrown |-> LastAttempt.error]))
    /\ <>Ended

\* C27 witness: the call has returned a meeting at its third attempt
C27_Witness ==
    /\ tpc = "returned"
    /\ Len(attemptLog) = 3
    /\ LastAttempt.ok

====
